---------------------------- MODULE Spec2Model ----------------------------
(***************************************************************************)
(* Model of seller.py (Ozon) and market.py (Yandex.Market): listing the    *)
(* offer ids of an account, reconciling them with the downloaded stock     *)
(* spreadsheet, and pushing the stock and price updates in batches.        *)
(*                                                                         *)
(* Python strings are modelled as sequences of one-character strings, so   *)
(* that str(), int(), split and re.sub are computed character by           *)
(* character.  A spreadsheet cell is [t |-> "str", v |-> <<chars>>] or     *)
(* [t |-> "int", v |-> n] (pandas yields numbers for numeric cells).       *)
(* The dict keys "Код", "Количество", "Цена" are the fields Kod,           *)
(* Kolichestvo, Tsena.                                                     *)
(***************************************************************************)
EXTENDS Integers, Sequences, FiniteSets, TLC

(***************************************************************************)
(* Bounds of the model.                                                    *)
(***************************************************************************)
MaxInv == 2        \* records in the spreadsheet
MaxListed == 3     \* offer ids accumulated by one listing
MaxLen == 4        \* length of a list handed to divide by the harness
MaxN == 3          \* largest chunk size handed to divide by the harness
MaxBatches == 3    \* batches of the longest list handed to a push loop

(***************************************************************************)
(* Python text and number primitives.                                      *)
(***************************************************************************)
Digits == <<"0", "1", "2", "3", "4", "5", "6", "7", "8", "9">>

IsDigit(c) == \E i \in 1..Len(Digits) : Digits[i] = c

DigitVal(c) == (CHOOSE i \in 1..Len(Digits) : Digits[i] = c) - 1

StrCell(s) == [t |-> "str", v |-> s]

IntCell(n) == [t |-> "int", v |-> n]

\* decimal digits of a natural number, as str() prints them
RECURSIVE nat_str(_)
nat_str(n) ==
    IF n < 10 THEN <<Digits[n + 1]>>
    ELSE nat_str(n \div 10) \o <<Digits[(n % 10) + 1]>>

\* str(x): a text is itself, an integer is its decimal representation
py_str(cell) ==
    IF cell.t = "str" THEN cell.v
    ELSE IF cell.v < 0 THEN <<"-">> \o nat_str(0 - cell.v)
    ELSE nat_str(cell.v)

\* str.strip() as int() applies it: leading and trailing blanks are dropped
RECURSIVE lstrip(_)
lstrip(s) == IF s # <<>> /\ Head(s) = " " THEN lstrip(Tail(s)) ELSE s

RECURSIVE rstrip(_)
rstrip(s) ==
    IF s # <<>> /\ s[Len(s)] = " " THEN rstrip(SubSeq(s, 1, Len(s) - 1)) ELSE s

RECURSIVE digits_val(_, _)
digits_val(s, acc) ==
    IF s = <<>> THEN acc ELSE digits_val(Tail(s), 10 * acc + DigitVal(Head(s)))

AllDigits(s) == s # <<>> /\ \A i \in 1..Len(s) : IsDigit(s[i])

\* int(x): an integer is itself; a text is stripped, may carry one sign, and
\* must then be one or more decimal digits, else ValueError
py_int(cell) ==
    IF cell.t = "int" THEN [ok |-> TRUE, v |-> cell.v]
    ELSE LET s == rstrip(lstrip(cell.v))
             signed == s # <<>> /\ Head(s) \in {"-", "+"}
             body == IF signed THEN Tail(s) ELSE s
         IN IF ~AllDigits(body) THEN [ok |-> FALSE, err |-> "ValueError"]
            ELSE [ok |-> TRUE,
                  v |-> IF signed /\ Head(s) = "-" THEN 0 - digits_val(body, 0)
                        ELSE digits_val(body, 0)]

\* x in lst
In(x, lst) == \E i \in 1..Len(lst) : lst[i] = x

\* remove as a slip would have it: every occurrence of x is deleted
RECURSIVE remove_all(_, _)
remove_all(lst, x) ==
    IF lst = <<>> THEN <<>>
    ELSE (IF Head(lst) = x THEN <<>> ELSE <<Head(lst)>>) \o remove_all(Tail(lst), x)

\* lst.remove(x): the first occurrence of x is deleted
remove(lst, x) ==
    LET i == CHOOSE k \in 1..Len(lst) : lst[k] = x /\ \A j \in 1..(k - 1) : lst[j] # x
    IN SubSeq(lst, 1, i - 1) \o SubSeq(lst, i + 1, Len(lst))

(***************************************************************************)
(* seller.py: price_conversion and divide.                                 *)
(***************************************************************************)
\* price.split(".")[0]: the text before the first "."
RECURSIVE split_first(_)
split_first(s) ==
    IF s = <<>> \/ Head(s) = "." THEN <<>> ELSE <<Head(s)>> \o split_first(Tail(s))

\* re.sub("[^0-9]", "", s): every character that is not a digit is deleted
RECURSIVE sub_non_digits(_)
sub_non_digits(s) ==
    IF s = <<>> THEN <<>>
    ELSE (IF IsDigit(Head(s)) THEN <<Head(s)>> ELSE <<>>) \o sub_non_digits(Tail(s))

\* price_conversion(price); a cell that is no text has no split (AttributeError)
price_conversion(price) ==
    IF price.t # "str" THEN [ok |-> FALSE, err |-> "AttributeError"]
    ELSE [ok |-> TRUE, v |-> sub_non_digits(split_first(price.v))]

\* divide as a slip would have it: a last chunk shorter than n is dropped
RECURSIVE divide_from_full_only(_, _, _)
divide_from_full_only(lst, n, i) ==
    IF i + n > Len(lst) THEN <<>>
    ELSE <<SubSeq(lst, i + 1, i + n)>> \o divide_from_full_only(lst, n, i + n)

\* range(0, len(lst), n) followed by lst[i : i + n]
RECURSIVE divide_from(_, _, _)
divide_from(lst, n, i) ==
    IF i >= Len(lst) THEN <<>>
    ELSE <<SubSeq(lst, i + 1, IF i + n > Len(lst) THEN Len(lst) ELSE i + n)>>
         \o divide_from(lst, n, i + n)

\* list(divide(lst, n)): range() refuses a zero step, and a negative step
\* from 0 up to len(lst) is the empty range
divide(lst, n) ==
    IF n = 0 THEN [ok |-> FALSE, err |-> "ValueError"]
    ELSE IF n < 0 THEN [ok |-> TRUE, v |-> <<>>]
    ELSE [ok |-> TRUE, v |-> divide_from(lst, n, 0)]

(***************************************************************************)
(* seller.py: create_stocks and create_prices (Ozon).  A call that raises  *)
(* leaves offer_ids as the loop had changed it so far: the list is the     *)
(* caller's object and is changed in place.                                *)
(***************************************************************************)
RECURSIVE seller_stocks_loop(_, _, _, _)
seller_stocks_loop(watch_remnants, i, offer_ids, stocks) ==
    IF i > Len(watch_remnants)
    THEN [ok |-> TRUE, offer_ids |-> offer_ids, stocks |-> stocks]
    ELSE LET watch == watch_remnants[i]
             count == py_str(watch.Kolichestvo)
             stock == IF count = <<">", "1", "0">> THEN [ok |-> TRUE, v |-> 100]
                      ELSE IF count = <<"1">> THEN [ok |-> TRUE, v |-> 0]
                      ELSE py_int(watch.Kolichestvo)
         IN IF ~In(py_str(watch.Kod), offer_ids)
            THEN seller_stocks_loop(watch_remnants, i + 1, offer_ids, stocks)
            ELSE IF ~stock.ok
            THEN [ok |-> FALSE, err |-> stock.err, offer_ids |-> offer_ids]
            ELSE seller_stocks_loop(
                     watch_remnants, i + 1,
                     remove(offer_ids, py_str(watch.Kod)),
                     Append(stocks, [offer_id |-> py_str(watch.Kod), stock |-> stock.v]))

\* the second loop as a slip would have it: the zero entries are put in front
RECURSIVE seller_stocks_rest_in_front(_, _)
seller_stocks_rest_in_front(offer_ids, stocks) ==
    IF offer_ids = <<>> THEN stocks
    ELSE <<[offer_id |-> Head(offer_ids), stock |-> 0]>>
         \o seller_stocks_rest_in_front(Tail(offer_ids), stocks)

RECURSIVE seller_stocks_rest(_, _)
seller_stocks_rest(offer_ids, stocks) ==
    IF offer_ids = <<>> THEN stocks
    ELSE seller_stocks_rest(Tail(offer_ids),
                            Append(stocks, [offer_id |-> Head(offer_ids), stock |-> 0]))

\* create_stocks as a slip would have it: the second loop is missing
seller_create_stocks_matched_only(watch_remnants, offer_ids) ==
    seller_stocks_loop(watch_remnants, 1, offer_ids, <<>>)

seller_create_stocks(watch_remnants, offer_ids) ==
    LET matched == seller_stocks_loop(watch_remnants, 1, offer_ids, <<>>)
    IN IF ~matched.ok THEN matched
       ELSE [ok |-> TRUE, offer_ids |-> matched.offer_ids,
             stocks |-> seller_stocks_rest(matched.offer_ids, matched.stocks)]

RECURSIVE seller_prices_loop(_, _, _, _)
seller_prices_loop(watch_remnants, i, offer_ids, prices) ==
    IF i > Len(watch_remnants)
    THEN [ok |-> TRUE, offer_ids |-> offer_ids, prices |-> prices]
    ELSE LET watch == watch_remnants[i]
             conv == price_conversion(watch.Tsena)
         IN IF ~In(py_str(watch.Kod), offer_ids)
            THEN seller_prices_loop(watch_remnants, i + 1, offer_ids, prices)
            ELSE IF ~conv.ok
            THEN [ok |-> FALSE, err |-> conv.err, offer_ids |-> offer_ids]
            ELSE seller_prices_loop(
                     watch_remnants, i + 1, offer_ids,
                     Append(prices, [auto_action_enabled |-> "UNKNOWN",
                                     currency_code |-> "RUB",
                                     offer_id |-> py_str(watch.Kod),
                                     old_price |-> "0",
                                     price |-> conv.v]))

\* create_prices as a slip would have it: a zero price for every listed
\* identifier is added, as create_stocks adds a zero stock
RECURSIVE seller_prices_rest(_, _)
seller_prices_rest(offer_ids, prices) ==
    IF offer_ids = <<>> THEN prices
    ELSE seller_prices_rest(Tail(offer_ids),
                            Append(prices, [auto_action_enabled |-> "UNKNOWN",
                                            currency_code |-> "RUB",
                                            offer_id |-> Head(offer_ids),
                                            old_price |-> "0",
                                            price |-> <<"0">>]))

seller_create_prices_with_placeholders(watch_remnants, offer_ids) ==
    LET r == seller_prices_loop(watch_remnants, 1, offer_ids, <<>>)
    IN IF ~r.ok THEN r
       ELSE [ok |-> TRUE, offer_ids |-> r.offer_ids,
             prices |-> seller_prices_rest(offer_ids, r.prices)]

seller_create_prices(watch_remnants, offer_ids) ==
    seller_prices_loop(watch_remnants, 1, offer_ids, <<>>)

(***************************************************************************)
(* market.py: create_stocks and create_prices (Yandex.Market).  date is    *)
(* the UTC clock read once at the start of create_stocks.                  *)
(***************************************************************************)
market_stock_entry(sku, warehouse_id, count, date) ==
    [sku |-> sku, warehouseId |-> warehouse_id,
     items |-> <<[count |-> count, type |-> "FIT", updatedAt |-> date]>>]

RECURSIVE market_stocks_loop(_, _, _, _, _, _)
market_stocks_loop(watch_remnants, i, offer_ids, warehouse_id, date, stocks) ==
    IF i > Len(watch_remnants)
    THEN [ok |-> TRUE, offer_ids |-> offer_ids, stocks |-> stocks]
    ELSE LET watch == watch_remnants[i]
             count == py_str(watch.Kolichestvo)
             stock == IF count = <<">", "1", "0">> THEN [ok |-> TRUE, v |-> 100]
                      ELSE IF count = <<"1">> THEN [ok |-> TRUE, v |-> 0]
                      ELSE py_int(watch.Kolichestvo)
         IN IF ~In(py_str(watch.Kod), offer_ids)
            THEN market_stocks_loop(watch_remnants, i + 1, offer_ids,
                                    warehouse_id, date, stocks)
            ELSE IF ~stock.ok
            THEN [ok |-> FALSE, err |-> stock.err, offer_ids |-> offer_ids]
            ELSE market_stocks_loop(
                     watch_remnants, i + 1,
                     remove(offer_ids, py_str(watch.Kod)), warehouse_id, date,
                     Append(stocks, market_stock_entry(py_str(watch.Kod),
                                                       warehouse_id, stock.v, date)))

RECURSIVE market_stocks_rest(_, _, _, _)
market_stocks_rest(offer_ids, warehouse_id, date, stocks) ==
    IF offer_ids = <<>> THEN stocks
    ELSE market_stocks_rest(
             Tail(offer_ids), warehouse_id, date,
             Append(stocks, market_stock_entry(Head(offer_ids), warehouse_id, 0, date)))

market_create_stocks(watch_remnants, offer_ids, warehouse_id, date) ==
    LET matched == market_stocks_loop(watch_remnants, 1, offer_ids,
                                      warehouse_id, date, <<>>)
    IN IF ~matched.ok THEN matched
       ELSE [ok |-> TRUE, offer_ids |-> matched.offer_ids,
             stocks |-> market_stocks_rest(matched.offer_ids, warehouse_id,
                                           date, matched.stocks)]

RECURSIVE market_prices_loop(_, _, _, _)
market_prices_loop(watch_remnants, i, offer_ids, prices) ==
    IF i > Len(watch_remnants)
    THEN [ok |-> TRUE, offer_ids |-> offer_ids, prices |-> prices]
    ELSE LET watch == watch_remnants[i]
             conv == price_conversion(watch.Tsena)
             value == IF conv.ok THEN py_int(StrCell(conv.v)) ELSE conv
         IN IF ~In(py_str(watch.Kod), offer_ids)
            THEN market_prices_loop(watch_remnants, i + 1, offer_ids, prices)
            ELSE IF ~value.ok
            THEN [ok |-> FALSE, err |-> value.err, offer_ids |-> offer_ids]
            ELSE market_prices_loop(
                     watch_remnants, i + 1, offer_ids,
                     Append(prices, [id |-> py_str(watch.Kod),
                                     price |-> [value |-> value.v,
                                                currencyId |-> "RUR"]]))

market_create_prices(watch_remnants, offer_ids) ==
    market_prices_loop(watch_remnants, 1, offer_ids, <<>>)

(***************************************************************************)
(* Inputs: the offer ids an account may list, and the spreadsheet rows.    *)
(***************************************************************************)
Ids == {<<"7">>, <<"8">>}

Row(kod, kolichestvo, tsena) ==
    [Kod |-> kod, Kolichestvo |-> kolichestvo, Tsena |-> tsena]

Records ==
    { Row(IntCell(7), StrCell(<<">", "1", "0">>), StrCell(<<"1", "'", "5", ".", "0", "r">>)),
      Row(StrCell(<<"7">>), StrCell(<<"1">>), StrCell(<<"x">>)),
      Row(StrCell(<<"8">>), IntCell(1), StrCell(<<".", "5">>)),
      Row(StrCell(<<"8">>), StrCell(<<"5">>), StrCell(<<"2", "0">>)),
      Row(StrCell(<<"7">>), StrCell(<<"-", "3">>), StrCell(<<"0", ".", "9">>)),
      Row(StrCell(<<"8">>), StrCell(<<"x">>), IntCell(20)),
      Row(StrCell(<<"7">>), StrCell(<<" ", "4">>), StrCell(<<>>)) }

Inventories == UNION {[1..k -> Records] : k \in 0..MaxInv}

IdLists == UNION {[1..k -> Ids] : k \in 0..MaxListed}

\* datetime.utcnow() to the second, as the text create_stocks stamps
Dates == <<"2025-01-01T12:00:00Z", "2025-01-01T12:00:01Z">>

Warehouses == {"100"}

VARIABLES
    prog,             \* the entry point that is running
    pc,               \* index of its current step in Steps(prog)
    product_list,     \* get_offer_ids: the products accumulated so far
    page,             \* get_offer_ids: last_id (Ozon) or page token (Yandex)
    total,            \* get_offer_ids (Ozon): total of the last response
    listed,           \* what each get_offer_ids call returned, per account
    watch_remnants,   \* the rows of the spreadsheet
    offer_ids,        \* the caller's list of listed offer ids (changed in place)
    stocks,           \* the list create_stocks returned
    prices,           \* the list create_prices returned
    queue,            \* list(divide(...)): the batches not pushed yet
    pushed,           \* the batches the marketplace accepted, in order
    err,              \* the exception that ended the run, or "none"
    printed,          \* what the except clause printed, or "none"
    result,           \* the value the entry point returned
    dl,               \* download_stock: the statement it is at
    file_exists,      \* whether ./ostatki.xls exists in the working directory
    clock,            \* index into Dates of the current UTC second
    last,             \* harness: the most recent call and what it returned
    prev,             \* harness: the call before it
    div_lst,          \* harness: list handed to divide
    div_n,            \* harness: chunk size handed to divide
    div_out           \* harness: what list(divide(div_lst, div_n)) gave

runVars == <<prog, pc, product_list, page, total, listed, stocks, prices,
             queue, pushed, err, printed, result, dl, file_exists>>

fnVars == <<watch_remnants, offer_ids, clock, last, prev>>

divVars == <<div_lst, div_n, div_out>>

vars == <<prog, pc, product_list, page, total, listed, watch_remnants, offer_ids,
          stocks, prices, queue, pushed, err, printed, result, dl, file_exists,
          clock, last, prev, div_lst, div_n, div_out>>

\* no entry point is running
RunIdle ==
    /\ prog = "none"
    /\ pc = 1
    /\ product_list = <<>>
    /\ page = ""
    /\ total = 0
    /\ listed = <<>>
    /\ stocks = <<>>
    /\ prices = <<>>
    /\ queue = <<>>
    /\ pushed = <<>>
    /\ err = "none"
    /\ printed = "none"
    /\ result = "None"
    /\ dl = "get"
    /\ file_exists = FALSE

NoCall == [fn |-> "none", ids_in |-> <<>>, ids_out |-> <<>>, ok |-> TRUE,
           out |-> <<>>, err |-> "none"]

\* what a caller sees of a call: its result or its exception, and its list
Called(fn, ids_in, r, out) ==
    [fn |-> fn, ids_in |-> ids_in, ids_out |-> r.offer_ids, ok |-> r.ok,
     out |-> IF r.ok THEN out ELSE <<>>, err |-> IF r.ok THEN "none" ELSE r.err]

(***************************************************************************)
(* Function harness: the reconciliation functions called one after the     *)
(* other on the same spreadsheet rows and the same list object.            *)
(***************************************************************************)
FnInit ==
    /\ watch_remnants \in Inventories
    /\ offer_ids \in IdLists
    /\ clock = 1
    /\ last = NoCall
    /\ prev = NoCall
    /\ div_lst = <<>>
    /\ div_n = 1
    /\ div_out = [ok |-> TRUE, v |-> <<>>]
    /\ RunIdle

CallSellerCreateStocks ==
    LET r == seller_create_stocks(watch_remnants, offer_ids)
    IN /\ last' = Called("seller.create_stocks", offer_ids, r,
                         IF r.ok THEN r.stocks ELSE <<>>)
       /\ prev' = last
       /\ offer_ids' = r.offer_ids
       /\ UNCHANGED <<watch_remnants, clock, divVars, runVars>>

CallMarketCreateStocks ==
    \E w \in Warehouses, now \in clock..Len(Dates) :
        LET r == market_create_stocks(watch_remnants, offer_ids, w, Dates[now])
        IN /\ last' = Called("market.create_stocks", offer_ids, r,
                             IF r.ok THEN r.stocks ELSE <<>>)
           /\ prev' = last
           /\ offer_ids' = r.offer_ids
           /\ clock' = now
           /\ UNCHANGED <<watch_remnants, divVars, runVars>>

CallSellerCreatePrices ==
    LET r == seller_create_prices(watch_remnants, offer_ids)
    IN /\ last' = Called("seller.create_prices", offer_ids, r,
                         IF r.ok THEN r.prices ELSE <<>>)
       /\ prev' = last
       /\ offer_ids' = r.offer_ids
       /\ UNCHANGED <<watch_remnants, clock, divVars, runVars>>

CallMarketCreatePrices ==
    LET r == market_create_prices(watch_remnants, offer_ids)
    IN /\ last' = Called("market.create_prices", offer_ids, r,
                         IF r.ok THEN r.prices ELSE <<>>)
       /\ prev' = last
       /\ offer_ids' = r.offer_ids
       /\ UNCHANGED <<watch_remnants, clock, divVars, runVars>>

FnNext ==
    \/ CallSellerCreateStocks
    \/ CallMarketCreateStocks
    \/ CallSellerCreatePrices
    \/ CallMarketCreatePrices

FnSpec == FnInit /\ [][FnNext]_vars

(***************************************************************************)
(* Vocabulary of the claims about one reconciliation call.                 *)
(***************************************************************************)
StockFns == {"seller.create_stocks", "market.create_stocks"}

PriceFns == {"seller.create_prices", "market.create_prices"}

\* the offer id and the quantity of a stock entry, in either marketplace's shape
StockId(c, e) == IF c.fn = "seller.create_stocks" THEN e.offer_id ELSE e.sku

StockQty(c, e) == IF c.fn = "seller.create_stocks" THEN e.stock ELSE e.items[1].count

PriceId(c, e) == IF c.fn = "seller.create_prices" THEN e.offer_id ELSE e.id

Count(x, lst) == Cardinality({i \in 1..Len(lst) : lst[i] = x})

Code(i) == py_str(watch_remnants[i].Kod)

Indices == [i \in 1..Len(watch_remnants) |-> i]

StockReturned(c) == c.fn \in StockFns /\ c.ok

PriceReturned(c) == c.fn \in PriceFns /\ c.ok

\* C1: every identifier listed for the account has an entry in the list
\* create_stocks returns, and an identifier that no row's code (as a string)
\* equals has quantity 0 in each of its entries.
C1_EveryListedIdHasStock ==
    StockReturned(last) =>
        \A i \in 1..Len(last.ids_in) :
            LET x == last.ids_in[i]
            IN /\ \E j \in 1..Len(last.out) : StockId(last, last.out[j]) = x
               /\ (\A k \in 1..Len(watch_remnants) : Code(k) # x)
                      => \A j \in 1..Len(last.out) :
                             StockId(last, last.out[j]) = x
                                 => StockQty(last, last.out[j]) = 0

\* a returned call where one listed identifier is matched by a row and
\* another by none
C1_Witness ==
    /\ StockReturned(last)
    /\ \E i \in 1..Len(last.ids_in) :
           \A k \in 1..Len(watch_remnants) : Code(k) # last.ids_in[i]
    /\ \E i \in 1..Len(last.ids_in), k \in 1..Len(watch_remnants) :
           Code(k) = last.ids_in[i]

\* C3 as stated: no identifier is removed from the list more than once in
\* one call, and the returned list has no two entries for one identifier.
C3_NoDuplicateStockEntries ==
    StockReturned(last) =>
        /\ \A x \in Ids : Count(x, last.ids_in) - Count(x, last.ids_out) <= 1
        /\ \A i, j \in 1..Len(last.out) :
               i # j => StockId(last, last.out[i]) # StockId(last, last.out[j])

\* C3 amended: every occurrence of an identifier in the list is consumed at
\* most once, by its own row: an identifier listed k times and carried by m
\* rows is removed min(k, m) times and has exactly k entries in the result,
\* so a list without repetition gives a result without repetition.
C3_OneEntryPerListedOccurrence ==
    StockReturned(last) =>
        \A x \in Ids :
            LET k == Count(x, last.ids_in)
                m == Cardinality({i \in 1..Len(watch_remnants) : Code(i) = x})
            IN /\ Count(x, last.ids_in) - Count(x, last.ids_out)
                      = (IF k < m THEN k ELSE m)
               /\ Cardinality({j \in 1..Len(last.out) :
                                   StockId(last, last.out[j]) = x}) = k

\* a returned call on rows that repeat a code listed once
C3_Witness ==
    /\ StockReturned(last)
    /\ \E i, j \in 1..Len(watch_remnants) :
           /\ i # j
           /\ Code(i) = Code(j)
           /\ Count(Code(i), last.ids_in) = 1

\* what an entry says apart from the time stamp of market.create_stocks
Said(c, e) == IF c.fn \in StockFns THEN <<StockId(c, e), StockQty(c, e)>> ELSE e

\* C4: the same function called twice in a row on the same rows and the
\* same list gives the same outcome both times: the same entries (offer id
\* and quantity, or price entry) in the same order, or the same exception.
C4_SecondCallSameOutput ==
    (prev.fn # "none" /\ last.fn = prev.fn) =>
        /\ last.ok = prev.ok
        /\ last.err = prev.err
        /\ [j \in 1..Len(last.out) |-> Said(last, last.out[j])]
               = [j \in 1..Len(prev.out) |-> Said(prev, prev.out[j])]

\* row i is matched by the call that started with list ids: fewer earlier
\* rows carry its code than the list has occurrences of it
Matched(ids, i) ==
    Cardinality({j \in 1..(i - 1) : Code(j) = Code(i)}) < Count(Code(i), ids)

\* the quantity create_stocks is to give for a quantity cell: 100 for the
\* text ">10", 0 for the text "1", else the integer the text spells
QuantityOf(cell) ==
    IF py_str(cell) = <<">", "1", "0">> THEN 100
    ELSE IF py_str(cell) = <<"1">> THEN 0
    ELSE py_int(cell).v

\* C5: every quantity in the result of create_stocks is a non-negative
\* integer: the entry of a matched row has 100 for ">10", 0 for "1" and
\* else the integer its text spells, and a call that met a matched row
\* whose text spells no integer has raised.
C5_QuantityNonNegative ==
    /\ StockReturned(last) =>
           LET rows == SelectSeq(Indices, LAMBDA i : Matched(last.ids_in, i))
           IN /\ \A j \in 1..Len(last.out) : StockQty(last, last.out[j]) \in Nat
              /\ \A j \in 1..Len(rows) :
                     StockQty(last, last.out[j])
                         = QuantityOf(watch_remnants[rows[j]].Kolichestvo)
    /\ (last.fn \in StockFns /\ ~last.ok) => last.err = "ValueError"

\* C6: the result is one entry per matched row in the order of the rows,
\* followed by one zero entry per identifier left in the list, in the order
\* of the list as the call leaves it.
C6_MatchedFirstThenRemaining ==
    StockReturned(last) =>
        LET rows == SelectSeq(Indices, LAMBDA i : Matched(last.ids_in, i))
            n == Len(rows)
        IN /\ Len(last.out) = n + Len(last.ids_out)
           /\ \A j \in 1..n : StockId(last, last.out[j]) = Code(rows[j])
           /\ \A j \in 1..Len(last.ids_out) :
                  /\ StockId(last, last.out[n + j]) = last.ids_out[j]
                  /\ StockQty(last, last.out[n + j]) = 0

\* a returned call with two matched rows of different codes and two
\* identifiers left over
C6_Witness ==
    /\ StockReturned(last)
    /\ Len(last.ids_out) >= 1
    /\ \E i, j \in 1..Len(watch_remnants) :
           /\ i < j
           /\ Code(i) # Code(j)
           /\ Matched(last.ids_in, i)
           /\ Matched(last.ids_in, j)

\* C7: create_prices returns one entry per row whose code is in the list,
\* in the order of the rows, none for an identifier no row carries, and
\* leaves the list as it was.
C7_PricesOnlyForListedRows ==
    PriceReturned(last) =>
        LET rows == SelectSeq(Indices, LAMBDA i : In(Code(i), last.ids_in))
        IN /\ Len(last.out) = Len(rows)
           /\ \A j \in 1..Len(rows) : PriceId(last, last.out[j]) = Code(rows[j])
           /\ last.ids_out = last.ids_in

\* a returned call where one listed identifier has two rows and another none
C7_Witness ==
    /\ PriceReturned(last)
    /\ Len(last.out) >= 2
    /\ \E i \in 1..Len(last.ids_in) :
           \A k \in 1..Len(watch_remnants) : Code(k) # last.ids_in[i]

(***************************************************************************)
(* Batcher harness: list(divide(lst, n)) on any list and any chunk size.   *)
(***************************************************************************)
Elems == {"a", "b", "c"}

NotCalled == [ok |-> FALSE, err |-> "not called"]

DivInit ==
    /\ div_lst \in UNION {[1..k -> Elems] : k \in 0..MaxLen}
    /\ div_n \in -1..MaxN
    /\ div_out = NotCalled
    /\ watch_remnants = <<>>
    /\ offer_ids = <<>>
    /\ clock = 1
    /\ last = NoCall
    /\ prev = NoCall
    /\ RunIdle

CallDivide ==
    /\ div_out = NotCalled
    /\ div_out' = divide(div_lst, div_n)
    /\ UNCHANGED <<div_lst, div_n, fnVars, runVars>>

DivNext == CallDivide

DivSpec == DivInit /\ [][DivNext]_vars

RECURSIVE Concat(_)
Concat(chunks) == IF chunks = <<>> THEN <<>> ELSE Head(chunks) \o Concat(Tail(chunks))

\* C8: for a chunk size n > 0 the chunks, joined in order, are the list;
\* every chunk has 1..n elements, every chunk but the last has n, a chunk
\* shorter than n exists only when the length is no multiple of n, and the
\* empty list has no chunks.
C8_DivideChunks ==
    (div_out # NotCalled /\ div_n > 0) =>
        /\ div_out.ok
        /\ Concat(div_out.v) = div_lst
        /\ \A k \in 1..Len(div_out.v) :
               /\ Len(div_out.v[k]) \in 1..div_n
               /\ k < Len(div_out.v) => Len(div_out.v[k]) = div_n
               /\ Len(div_out.v[k]) < div_n => Len(div_lst) % div_n # 0
        /\ Len(div_lst) % div_n # 0 => Len(div_out.v[Len(div_out.v)]) < div_n
        /\ div_lst = <<>> => div_out.v = <<>>

\* a list cut into two or more chunks, the last one short
C8_Witness ==
    /\ div_out # NotCalled
    /\ div_n > 1
    /\ div_out.ok
    /\ Len(div_out.v) >= 2
    /\ Len(div_out.v[Len(div_out.v)]) < div_n

(***************************************************************************)
(* The entry points.  A run is one call of main (seller.py or market.py)   *)
(* or of one of the upload functions or of get_offer_ids; its steps are    *)
(* taken one after the other, and an exception ends it.                    *)
(***************************************************************************)
SELLER_MAIN_STOCKS == 100

SELLER_MAIN_PRICES == 900

SELLER_UPLOAD_PRICES == 1000

SELLER_UPLOAD_STOCKS == 100

MARKET_MAIN_STOCKS == 2000

MARKET_UPLOAD_PRICES == 500

MARKET_UPLOAD_STOCKS == 2000

Mains == {"seller.main", "market.main"}

Uploads == {"seller.upload_prices", "seller.upload_stocks",
            "market.upload_prices", "market.upload_stocks"}

Listers == {"seller.get_offer_ids", "market.get_offer_ids"}

Ozon == {"seller.main", "seller.upload_prices", "seller.upload_stocks",
         "seller.get_offer_ids"}

Steps(p) ==
    CASE p = "seller.main" ->
             <<"list", "download", "create_stocks", "push_stocks",
               "create_prices", "push_prices">>
      [] p = "market.main" ->
             <<"download",
               "list", "create_stocks", "push_stocks", "upload_prices",
               "list", "create_stocks", "push_stocks", "upload_prices">>
      [] p \in {"seller.upload_prices", "market.upload_prices"} ->
             <<"list", "create_prices", "push_prices", "return">>
      [] p \in {"seller.upload_stocks", "market.upload_stocks"} ->
             <<"list", "create_stocks", "push_stocks", "return">>
      [] p \in Listers -> <<"list", "return">>
      [] OTHER -> <<>>

End == Len(Steps(prog)) + 1

Step == IF pc <= Len(Steps(prog)) THEN Steps(prog)[pc] ELSE "end"

\* the account the current step works on: the Ozon client, or the FBS or
\* DBS campaign of Yandex.Market
Account ==
    IF prog \in Ozon THEN "ozon"
    ELSE IF prog = "market.main" /\ pc > 5 THEN "DBS"
    ELSE "FBS"

WarehouseOf(account) == IF account = "DBS" THEN "200" ELSE "100"

BatchSize(kind) ==
    CASE prog = "seller.main" ->
             (IF kind = "stocks" THEN SELLER_MAIN_STOCKS ELSE SELLER_MAIN_PRICES)
      [] prog = "seller.upload_prices" -> SELLER_UPLOAD_PRICES
      [] prog = "seller.upload_stocks" -> SELLER_UPLOAD_STOCKS
      [] prog = "market.main" -> MARKET_MAIN_STOCKS
      [] prog = "market.upload_prices" -> MARKET_UPLOAD_PRICES
      [] OTHER -> MARKET_UPLOAD_STOCKS

\* the statement is inside the try of main
InTry == prog = "seller.main" \/ (prog = "market.main" /\ pc > 1)

\* the except clauses of main, first match first
Handler(e) ==
    IF e = "ReadTimeout" THEN "timeout"
    ELSE IF e = "ConnectionError" THEN "connection"
    ELSE "ERROR_2"

\* an exception leaves the run: main prints and returns, the others let it
\* out to their caller
Raise(e) ==
    /\ err' = e
    /\ pc' = End
    /\ printed' = IF InTry THEN Handler(e) ELSE "none"

\* what requests raises for a call made without timeout=
NetErrors == {"ConnectionError", "HTTPError"}

\* "" and two cursors a server may hand out for a further page
Cursors == {"", "c", "d"}

OzonResponses ==
    { [items |-> [i \in DOMAIN ids |-> [offer_id |-> ids[i]]],
       total |-> t, last_id |-> c] :
          ids \in {l \in IdLists : Len(product_list) + Len(l) <= MaxListed},
          t \in 0..MaxListed, c \in Cursors }

YandexResponses ==
    { [offerMappingEntries |-> [i \in DOMAIN ids |-> [offer |-> [shopSku |-> ids[i]]]],
       paging |-> [nextPageToken |-> c]] :
          ids \in {l \in IdLists : Len(product_list) + Len(l) <= MaxListed},
          c \in Cursors }

\* the test as a slip would have it: at least as many products as the total
ozon_stop_at_least(total_, product_list_) == total_ <= Len(product_list_)

\* seller.get_offer_ids: the test that leaves the loop
ozon_stop(total_, product_list_) == total_ = Len(product_list_)

\* market.get_offer_ids: the test that leaves the loop
yandex_stop(page_) == page_ = ""

ozon_offer_ids(product_list_) ==
    [i \in DOMAIN product_list_ |-> product_list_[i].offer_id]

yandex_offer_ids(product_list_) ==
    [i \in DOMAIN product_list_ |-> product_list_[i].offer.shopSku]

\* the loop is left: offer_ids is built and the frame of get_offer_ids ends
ListReturn(ids) ==
    /\ offer_ids' = ids
    /\ listed' = Append(listed, [account |-> Account, ids |-> ids])
    /\ product_list' = <<>>
    /\ page' = ""
    /\ total' = 0
    /\ pc' = pc + 1

\* one turn of the loop of seller.get_offer_ids on the response some_prod
OzonListPage(some_prod) ==
    /\ prog \in Ozon
    /\ Step = "list"
    /\ LET acc == product_list \o some_prod.items
       IN IF ozon_stop(some_prod.total, acc)
          THEN ListReturn(ozon_offer_ids(acc))
          ELSE /\ product_list' = acc
               /\ total' = some_prod.total
               /\ page' = some_prod.last_id
               /\ UNCHANGED <<pc, offer_ids, listed>>
    /\ UNCHANGED <<prog, watch_remnants, stocks, prices, queue, pushed, err,
                   printed, result, clock, last, prev, divVars, dl, file_exists>>

\* one turn of the loop of market.get_offer_ids on the response some_prod
YandexListPage(some_prod) ==
    /\ prog \notin Ozon
    /\ Step = "list"
    /\ LET acc == product_list \o some_prod.offerMappingEntries
       IN IF yandex_stop(some_prod.paging.nextPageToken)
          THEN ListReturn(yandex_offer_ids(acc))
          ELSE /\ product_list' = acc
               /\ page' = some_prod.paging.nextPageToken
               /\ UNCHANGED <<pc, offer_ids, listed, total>>
    /\ UNCHANGED <<prog, watch_remnants, stocks, prices, queue, pushed, err,
                   printed, result, clock, last, prev, divVars, dl, file_exists>>

OzonList == \E some_prod \in OzonResponses : OzonListPage(some_prod)

YandexList == \E some_prod \in YandexResponses : YandexListPage(some_prod)

\* get_product_list raises: the request failed or raise_for_status refused
ListFail ==
    /\ Step = "list"
    /\ \E e \in NetErrors : Raise(e)
    /\ UNCHANGED <<prog, product_list, page, total, listed, watch_remnants,
                   offer_ids, stocks, prices, queue, pushed, result, clock,
                   last, prev, divVars, dl, file_exists>>

\* get_offer_ids called on its own returns the list
ListerReturn ==
    /\ prog \in Listers
    /\ Step = "return"
    /\ result' = offer_ids
    /\ pc' = pc + 1
    /\ UNCHANGED <<prog, product_list, page, total, listed, watch_remnants,
                   offer_ids, stocks, prices, queue, pushed, err, printed,
                   clock, last, prev, divVars, dl, file_exists>>

\* download_stock: session.get and raise_for_status went through
DownloadStockGet ==
    /\ Step = "download"
    /\ dl = "get"
    /\ dl' = "extract"
    /\ UNCHANGED <<prog, pc, product_list, page, total, listed, watch_remnants,
                   offer_ids, stocks, prices, queue, pushed, err, printed,
                   result, file_exists, clock, last, prev, divVars>>

\* download_stock: session.get or raise_for_status raises
DownloadStockGetFail ==
    /\ Step = "download"
    /\ dl = "get"
    /\ \E e \in NetErrors : Raise(e)
    /\ UNCHANGED <<prog, product_list, page, total, listed, watch_remnants,
                   offer_ids, stocks, prices, queue, pushed, result, dl,
                   file_exists, clock, last, prev, divVars>>

\* download_stock: archive.extractall(".") writes ./ostatki.xls
DownloadStockExtract ==
    /\ Step = "download"
    /\ dl = "extract"
    /\ file_exists' = TRUE
    /\ dl' = "read"
    /\ UNCHANGED <<prog, pc, product_list, page, total, listed, watch_remnants,
                   offer_ids, stocks, prices, queue, pushed, err, printed,
                   result, clock, last, prev, divVars>>

\* download_stock: the response is no zip archive
DownloadStockExtractFail ==
    /\ Step = "download"
    /\ dl = "extract"
    /\ Raise("BadZipFile")
    /\ UNCHANGED <<prog, product_list, page, total, listed, watch_remnants,
                   offer_ids, stocks, prices, queue, pushed, result, dl,
                   file_exists, clock, last, prev, divVars>>

\* download_stock: pd.read_excel(...).to_dict(orient="records") gives the rows
DownloadStockRead ==
    /\ Step = "download"
    /\ dl = "read"
    /\ watch_remnants' \in Inventories
    /\ dl' = "remove"
    /\ UNCHANGED <<prog, pc, product_list, page, total, listed, offer_ids,
                   stocks, prices, queue, pushed, err, printed, result,
                   file_exists, clock, last, prev, divVars>>

\* download_stock: pd.read_excel raises on a spreadsheet it cannot parse;
\* the exception leaves download_stock before os.remove
DownloadStockReadFail ==
    /\ Step = "download"
    /\ dl = "read"
    /\ Raise("ValueError")
    /\ UNCHANGED <<prog, product_list, page, total, listed, watch_remnants,
                   offer_ids, stocks, prices, queue, pushed, result, dl,
                   file_exists, clock, last, prev, divVars>>

\* download_stock: os.remove("./ostatki.xls") and return watch_remnants
DownloadStockRemove ==
    /\ Step = "download"
    /\ dl = "remove"
    /\ file_exists' = FALSE
    /\ dl' = "get"
    /\ pc' = pc + 1
    /\ UNCHANGED <<prog, product_list, page, total, listed, watch_remnants,
                   offer_ids, stocks, prices, queue, pushed, err, printed,
                   result, clock, last, prev, divVars>>

\* after create_stocks or create_prices: list(divide(lst, n)), and the for
\* loop over it, which is skipped when there is no batch
StartPush(lst, kind) ==
    LET batches == divide(lst, BatchSize(kind)).v
    IN /\ queue' = batches
       /\ pc' = IF batches = <<>> THEN pc + 2 ELSE pc + 1

\* stocks = create_stocks(watch_remnants, offer_ids[, warehouse_id])
CreateStocks ==
    /\ Step = "create_stocks"
    /\ \E now \in clock..Len(Dates) :
           LET r == IF prog \in Ozon
                    THEN seller_create_stocks(watch_remnants, offer_ids)
                    ELSE market_create_stocks(watch_remnants, offer_ids,
                                              WarehouseOf(Account), Dates[now])
           IN /\ clock' = IF prog \in Ozon THEN clock ELSE now
              /\ prog \in Ozon => now = clock
              /\ offer_ids' = r.offer_ids
              /\ IF r.ok
                 THEN /\ stocks' = r.stocks
                      /\ StartPush(r.stocks, "stocks")
                      /\ UNCHANGED <<err, printed>>
                 ELSE /\ Raise(r.err)
                      /\ UNCHANGED <<stocks, queue>>
    /\ UNCHANGED <<prog, product_list, page, total, listed, watch_remnants,
                   prices, pushed, result, last, prev, divVars, dl, file_exists>>

\* prices = create_prices(watch_remnants, offer_ids)
CreatePrices ==
    /\ Step = "create_prices"
    /\ LET r == IF prog \in Ozon
                THEN seller_create_prices(watch_remnants, offer_ids)
                ELSE market_create_prices(watch_remnants, offer_ids)
       IN /\ offer_ids' = r.offer_ids
          /\ IF r.ok
             THEN /\ prices' = r.prices
                  /\ StartPush(r.prices, "prices")
                  /\ UNCHANGED <<err, printed>>
             ELSE /\ Raise(r.err)
                  /\ UNCHANGED <<prices, queue>>
    /\ UNCHANGED <<prog, product_list, page, total, listed, watch_remnants,
                   stocks, pushed, result, clock, last, prev, divVars, dl, file_exists>>

PushKind == IF Step = "push_stocks" THEN "stocks" ELSE "prices"

\* update_stocks or update_price on the next batch: the marketplace took it
PushBatch ==
    /\ Step \in {"push_stocks", "push_prices"}
    /\ queue # <<>>
    /\ pushed' = Append(pushed, [kind |-> PushKind, account |-> Account,
                                 batch |-> Head(queue)])
    /\ queue' = Tail(queue)
    /\ pc' = IF Tail(queue) = <<>> THEN pc + 1 ELSE pc
    /\ UNCHANGED <<prog, product_list, page, total, listed, watch_remnants,
                   offer_ids, stocks, prices, err, printed, result, clock,
                   last, prev, divVars, dl, file_exists>>

\* the loop as it would be with the call wrapped in a try that goes on to
\* the next batch
PushBatchFailSkipped ==
    /\ Step \in {"push_stocks", "push_prices"}
    /\ queue # <<>>
    /\ queue' = Tail(queue)
    /\ pc' = IF Tail(queue) = <<>> THEN pc + 1 ELSE pc
    /\ UNCHANGED <<prog, product_list, page, total, listed, watch_remnants,
                   offer_ids, stocks, prices, pushed, err, printed, result,
                   clock, last, prev, divVars, dl, file_exists>>

\* update_stocks or update_price raises on the next batch
PushBatchFail ==
    /\ Step \in {"push_stocks", "push_prices"}
    /\ queue # <<>>
    /\ \E e \in NetErrors : Raise(e)
    /\ UNCHANGED <<prog, product_list, page, total, listed, watch_remnants,
                   offer_ids, stocks, prices, queue, pushed, result, clock,
                   last, prev, divVars, dl, file_exists>>

\* market.main: upload_prices(...) is a call of an async def that is not
\* awaited; it makes a coroutine object and runs none of the body
UploadPricesNotAwaited ==
    /\ Step = "upload_prices"
    /\ pc' = pc + 1
    /\ UNCHANGED <<prog, product_list, page, total, listed, watch_remnants,
                   offer_ids, stocks, prices, queue, pushed, err, printed,
                   result, clock, last, prev, divVars, dl, file_exists>>

StockCount(e) == IF prog \in Ozon THEN e.stock ELSE e.items[1].count

\* upload_prices returns prices; upload_stocks returns (not_empty, stocks)
UploadReturn ==
    /\ prog \in Uploads
    /\ Step = "return"
    /\ result' = IF prog \in {"seller.upload_prices", "market.upload_prices"}
                 THEN prices
                 ELSE <<SelectSeq(stocks, LAMBDA e : StockCount(e) # 0), stocks>>
    /\ pc' = pc + 1
    /\ UNCHANGED <<prog, product_list, page, total, listed, watch_remnants,
                   offer_ids, stocks, prices, queue, pushed, err, printed,
                   clock, last, prev, divVars, dl, file_exists>>

RunInit(progs) ==
    /\ prog \in progs
    /\ pc = 1
    /\ product_list = <<>>
    /\ page = ""
    /\ total = 0
    /\ listed = <<>>
    /\ watch_remnants \in (IF prog \in Uploads THEN Inventories ELSE {<<>>})
    /\ offer_ids = <<>>
    /\ stocks = <<>>
    /\ prices = <<>>
    /\ queue = <<>>
    /\ pushed = <<>>
    /\ err = "none"
    /\ printed = "none"
    /\ result = "None"
    /\ dl = "get"
    /\ file_exists = FALSE
    /\ clock = 1
    /\ last = NoCall
    /\ prev = NoCall
    /\ div_lst = <<>>
    /\ div_n = 1
    /\ div_out = NotCalled

Init == RunInit(Mains \cup Uploads)

Next ==
    \/ OzonList
    \/ YandexList
    \/ ListFail
    \/ DownloadStockGet
    \/ DownloadStockGetFail
    \/ DownloadStockExtract
    \/ DownloadStockExtractFail
    \/ DownloadStockRead
    \/ DownloadStockReadFail
    \/ DownloadStockRemove
    \/ CreateStocks
    \/ CreatePrices
    \/ PushBatch
    \/ PushBatchFail
    \/ UploadPricesNotAwaited
    \/ UploadReturn

Spec == Init /\ [][Next]_vars

(***************************************************************************)
(* get_offer_ids on its own.  The interpreter keeps running the loop, so   *)
(* a turn that can be taken is taken.                                      *)
(***************************************************************************)
ListInit == RunInit(Listers)

ListNext ==
    \/ OzonList
    \/ YandexList
    \/ ListFail
    \/ ListerReturn

ListSpec == ListInit /\ [][ListNext]_vars /\ WF_vars(ListNext)

(***************************************************************************)
(* The push loops on lists as long as the batch sizes.  The run is taken   *)
(* up where create_stocks or create_prices has returned a list of up to    *)
(* MaxBatches batches and list(divide(...)) has been evaluated: the        *)
(* listing had one identifier per entry, 1, 2, ..., and the spreadsheet    *)
(* was empty or had one row per identifier.  In main the spreadsheet is    *)
(* empty.                                                                  *)
(***************************************************************************)
\* the step of the first for loop over the batches
FirstPush(p) == IF p \in Mains THEN 4 ELSE 3

\* lengths around the multiples of the batch size n
PushLens(n) == {b * n + r : b \in 0..(MaxBatches - 1), r \in {0, 1}} \ {0}

LongIds(len) == [i \in 1..len |-> nat_str(i)]

LongRows(len) ==
    [i \in 1..len |-> Row(IntCell(i), StrCell(<<"5">>), StrCell(<<"2", "0">>))]

\* what create_stocks returns for LongIds(len): every quantity is qty
LongStocks(len, qty) ==
    [i \in 1..len |->
        IF prog \in Ozon
        THEN [offer_id |-> nat_str(i), stock |-> qty]
        ELSE market_stock_entry(nat_str(i), WarehouseOf("FBS"), qty, Dates[1])]

\* what create_prices returns for LongRows(len) and LongIds(len)
LongPrices(len) ==
    [i \in 1..len |->
        IF prog \in Ozon
        THEN [auto_action_enabled |-> "UNKNOWN", currency_code |-> "RUB",
              offer_id |-> nat_str(i), old_price |-> "0", price |-> <<"2", "0">>]
        ELSE [id |-> nat_str(i), price |-> [value |-> 20, currencyId |-> "RUR"]]]

PushInit ==
    /\ prog \in Mains \cup Uploads
    /\ pc = FirstPush(prog)
    /\ \E len \in PushLens(BatchSize(IF Steps(prog)[pc] = "push_stocks"
                                      THEN "stocks" ELSE "prices")) :
           /\ listed = <<[account |-> Account, ids |-> LongIds(len)]>>
           /\ IF Steps(prog)[pc] = "push_prices"
              THEN /\ watch_remnants = LongRows(len)
                   /\ offer_ids = LongIds(len)
                   /\ stocks = <<>>
                   /\ prices = LongPrices(len)
                   /\ queue = divide(prices, BatchSize("prices")).v
              ELSE /\ \/ /\ watch_remnants = <<>>
                         /\ offer_ids = LongIds(len)
                         /\ stocks = LongStocks(len, 0)
                      \/ /\ prog \in Uploads
                         /\ watch_remnants = LongRows(len)
                         /\ offer_ids = <<>>
                         /\ stocks = LongStocks(len, 5)
                   /\ prices = <<>>
                   /\ queue = divide(stocks, BatchSize("stocks")).v
    /\ product_list = <<>>
    /\ page = ""
    /\ total = 0
    /\ pushed = <<>>
    /\ err = "none"
    /\ printed = "none"
    /\ result = "None"
    /\ dl = "get"
    /\ file_exists = FALSE
    /\ clock = 1
    /\ last = NoCall
    /\ prev = NoCall
    /\ div_lst = <<>>
    /\ div_n = 1
    /\ div_out = NotCalled

PushNext ==
    \/ PushBatch
    \/ PushBatchFail
    \/ CreatePrices
    \/ UploadPricesNotAwaited
    \/ YandexList
    \/ ListFail
    \/ CreateStocks
    \/ UploadReturn

PushSpec == PushInit /\ [][PushNext]_vars

(***************************************************************************)
(* Claims about a run.                                                     *)
(***************************************************************************)
PushedPriceId(e) == IF prog \in Ozon THEN e.offer_id ELSE e.id

\* C2: in a run of main that ends without error, every row whose code is
\* among the identifiers listed for an account has an entry in a price
\* batch pushed for that account, whatever the stock pass did before.
C2_PricePassIndependent ==
    (prog \in Mains /\ pc = End /\ err = "none") =>
        \A a \in 1..Len(listed), i \in 1..Len(watch_remnants) :
            In(Code(i), listed[a].ids) =>
                \E k \in 1..Len(pushed) :
                    /\ pushed[k].kind = "prices"
                    /\ pushed[k].account = listed[a].account
                    /\ \E j \in 1..Len(pushed[k].batch) :
                           PushedPriceId(pushed[k].batch[j]) = Code(i)

\* the price text of row i has a digit before its first "."
HasPriceDigits(i) ==
    /\ watch_remnants[i].Tsena.t = "str"
    /\ \E j \in 1..Len(split_first(watch_remnants[i].Tsena.v)) :
           IsDigit(split_first(watch_remnants[i].Tsena.v)[j])

\* the price of a pushed entry is the empty text, or is zero
EmptyOrZeroPrice(e) ==
    IF prog \in Ozon
    THEN \A j \in 1..Len(e.price) : e.price[j] = "0"
    ELSE e.price.value = 0

\* C9: no price update with an empty or zero price is pushed for a row
\* whose price text has no digit before its first ".": a pushed empty or
\* zero price comes from a row of that code that spells a zero.
C9_NoEmptyPricePushed ==
    \A k \in 1..Len(pushed) :
        pushed[k].kind = "prices" =>
            \A j \in 1..Len(pushed[k].batch) :
                EmptyOrZeroPrice(pushed[k].batch[j]) =>
                    \E i \in 1..Len(watch_remnants) :
                        /\ Code(i) = PushedPriceId(pushed[k].batch[j])
                        /\ HasPriceDigits(i)

\* C10 as stated: get_offer_ids eventually stops, by returning or raising.
C10_ListingStops == <>(pc = End)

\* C10 amended: a turn of the loop stops exactly when the response it got
\* reports a total equal to the number of products accumulated with it
\* (Ozon), or an empty next-page token (Yandex); a turn that stops leaves
\* the offer ids of all products of all pages in page order, and a turn
\* that does not stop keeps them accumulated in that order.
C10_StopsExactlyOnCondition ==
    [][ /\ \A r \in OzonResponses :
               OzonListPage(r) =>
                   LET acc == product_list \o r.items
                   IN /\ (pc' = pc + 1) <=> (r.total = Len(acc))
                      /\ (pc' = pc + 1) =>
                             offer_ids' = [i \in 1..Len(acc) |-> acc[i].offer_id]
                      /\ (pc' = pc) => product_list' = acc
        /\ \A r \in YandexResponses :
               YandexListPage(r) =>
                   LET acc == product_list \o r.offerMappingEntries
                   IN /\ (pc' = pc + 1) <=> (r.paging.nextPageToken = "")
                      /\ (pc' = pc + 1) =>
                             offer_ids' = [i \in 1..Len(acc) |-> acc[i].offer.shopSku]
                      /\ (pc' = pc) => product_list' = acc
      ]_vars

\* get_offer_ids has returned the identifiers of two or more products
C10_Witness ==
    /\ prog \in Listers
    /\ pc = End
    /\ err = "none"
    /\ Len(offer_ids) >= 2
    /\ result = offer_ids

\* the batches pushed so far by the operation of this kind on this account
OpPushed(kind, account) ==
    LET mine == SelectSeq(pushed, LAMBDA e : e.kind = kind /\ e.account = account)
    IN [k \in 1..Len(mine) |-> mine[k].batch]

\* while the loop runs, the batches pushed followed by the batches still to
\* push are the chunks divide made of the list, in its order
PushedThenQueueIsDivide ==
    Step \in {"push_stocks", "push_prices"} =>
        OpPushed(PushKind, Account) \o queue =
            divide(IF PushKind = "stocks" THEN stocks ELSE prices,
                   BatchSize(PushKind)).v

\* a step pushes nothing, or pushes exactly the next batch
PushesNextBatchOnly ==
    \/ pushed' = pushed
    \/ /\ Step \in {"push_stocks", "push_prices"}
       /\ queue # <<>>
       /\ pushed' = Append(pushed, [kind |-> PushKind, account |-> Account,
                                    batch |-> Head(queue)])
       /\ queue' = Tail(queue)
       /\ err' = "none"

\* a push that fails adds nothing, takes nothing back and ends the operation
FailedPushEnds ==
    (Step \in {"push_stocks", "push_prices"} /\ err' # "none") =>
        (pushed' = pushed /\ queue' = queue /\ pc' = End)

\* C11: within one stock or price operation the batches are pushed one at
\* a time in the order divide produced them, each at most once and without
\* retry; when the push of a batch fails no later batch is pushed, and the
\* batches already pushed stay pushed.
C11_BatchesInOrderNoRetry ==
    /\ []PushedThenQueueIsDivide
    /\ [][PushesNextBatchOnly /\ FailedPushEnds]_vars
    /\ []((err # "none") => (pc = End))

\* the second of three batches failed: one batch is pushed, the failed one
\* and the one after it are not
C11_Witness ==
    /\ err \in NetErrors
    /\ pc = End
    /\ Len(pushed) = 1
    /\ Len(queue) = 2
    /\ Len(pushed[1].batch) = BatchSize(pushed[1].kind)

\* C12: once download_stock has extracted the spreadsheet, the file is gone
\* when download_stock has returned or raised: ./ostatki.xls exists only
\* while download_stock is between extracting it and removing it.
C12_ExtractedFileRemoved ==
    file_exists => (Step = "download" /\ dl \in {"read", "remove"})

=============================================================================
